---- MODULE Spec2Model ----
(***************************************************************************)
(* Container lifecycle state machine and destroy protocol of libcontainer  *)
(* (state_linux.go), modelled per container.                               *)
(***************************************************************************)
EXTENDS Integers, Sequences, FiniteSets, TLC

VARIABLES
    c,        \* the linuxContainer: [state, initProcess]
    config,   \* the container's immutable configuration
    env,      \* what live inspection reports: the init process, the freezer
    trace,    \* the calls on collaborators (cgroup manager, Intel RDT manager,
              \* file system, hooks, processes) made by the last operation, in order
    last,     \* the last operation: its kind, its target, the state before it, its result
    exited,   \* the runtime process has terminated (log.Fatal or panic)
    fs,       \* the cgroup control files: the ancestors' ledgers, the container's own files
    procs     \* the containers contributing to a ledger: where each one stands

cpuVars == <<fs, procs>>

vars == <<c, config, env, trace, last, exited, fs, procs>>

----------------------------------------------------------------------------
(* Values *)

ImageDirs == {"img1", "img2"}

Statuses == {"Created", "Running", "Paused", "Stopped"}

\* Status.String()
StatusString(s) ==
    CASE s = "Created" -> "created"
      [] s = "Running" -> "running"
      [] s = "Paused"  -> "paused"
      [] s = "Stopped" -> "stopped"
      [] OTHER         -> "unknown"

stoppedState  == [kind |-> "stoppedState",  s |-> "", imageDir |-> ""]
runningState  == [kind |-> "runningState",  s |-> "", imageDir |-> ""]
createdState  == [kind |-> "createdState",  s |-> "", imageDir |-> ""]
pausedState   == [kind |-> "pausedState",   s |-> "", imageDir |-> ""]
restoredState(dir) == [kind |-> "restoredState", s |-> "", imageDir |-> dir]
loadedState(st)    == [kind |-> "loadedState",   s |-> st, imageDir |-> ""]

States ==
    {stoppedState, runningState, createdState, pausedState}
        \cup {restoredState(d) : d \in ImageDirs}
        \cup {loadedState(st) : st \in Statuses}

NoState == [kind |-> "", s |-> "", imageDir |-> ""]

\* containerState.status()
status(st) ==
    CASE st.kind = "stoppedState"  -> "Stopped"
      [] st.kind = "runningState"  -> "Running"
      [] st.kind = "createdState"  -> "Created"
      [] st.kind = "pausedState"   -> "Paused"
      [] st.kind = "restoredState" -> "Running"
      [] st.kind = "loadedState"   -> st.s

Err(name) == [err |-> name, From |-> "", To |-> ""]
Nil == Err("nil")
ErrRunning == Err("ErrRunning")
ErrPaused == Err("ErrPaused")

newStateTransitionError_swapped(from, to) ==
    [err |-> "stateTransitionError",
     From |-> StatusString(status(to)),
     To   |-> StatusString(status(from))]

newStateTransitionError(from, to) ==
    [err |-> "stateTransitionError",
     From |-> StatusString(status(from)),
     To   |-> StatusString(status(to))]

\* linuxContainer.runType(): the live inspection of the init process
runType(cc, e) ==
    IF cc.initProcess = "nil" THEN "Stopped" ELSE e.liveness

Ev(step, err) == [step |-> step, err |-> err]

----------------------------------------------------------------------------
(* transition: each returns the container after the call and the result *)

Res(cc, ret) == [c |-> cc, ret |-> ret]

stoppedTransition(cc, s) ==
    IF s.kind \in {"runningState", "restoredState"}
    THEN Res([cc EXCEPT !.state = s], Nil)
    ELSE IF s.kind = "stoppedState"
    THEN Res(cc, Nil)
    ELSE Res(cc, newStateTransitionError(cc.state, s))

runningTransition_noLivenessCheck(cc, e, s) ==
    IF s.kind \in {"stoppedState", "pausedState"}
    THEN Res([cc EXCEPT !.state = s], Nil)
    ELSE IF s.kind = "runningState"
    THEN Res(cc, Nil)
    ELSE Res(cc, newStateTransitionError(cc.state, s))

runningTransition(cc, e, s) ==
    IF s.kind = "stoppedState"
    THEN IF runType(cc, e) = "Running"
         THEN Res(cc, ErrRunning)
         ELSE Res([cc EXCEPT !.state = s], Nil)
    ELSE IF s.kind = "pausedState"
    THEN Res([cc EXCEPT !.state = s], Nil)
    ELSE IF s.kind = "runningState"
    THEN Res(cc, Nil)
    ELSE Res(cc, newStateTransitionError(cc.state, s))

createdTransition_noSameKind(cc, s) ==
    IF s.kind \in {"runningState", "pausedState", "stoppedState"}
    THEN Res([cc EXCEPT !.state = s], Nil)
    ELSE Res(cc, newStateTransitionError(cc.state, s))

createdTransition(cc, s) ==
    IF s.kind \in {"runningState", "pausedState", "stoppedState"}
    THEN Res([cc EXCEPT !.state = s], Nil)
    ELSE IF s.kind = "createdState"
    THEN Res(cc, Nil)
    ELSE Res(cc, newStateTransitionError(cc.state, s))

pausedTransition(cc, s) ==
    IF s.kind \in {"runningState", "stoppedState"}
    THEN Res([cc EXCEPT !.state = s], Nil)
    ELSE IF s.kind = "pausedState"
    THEN Res(cc, Nil)
    ELSE Res(cc, newStateTransitionError(cc.state, s))

restoredTransition_swaps(cc, s) ==
    IF s.kind \in {"stoppedState", "runningState"}
    THEN Res([cc EXCEPT !.state = s], Nil)
    ELSE Res(cc, newStateTransitionError(cc.state, s))

restoredTransition(cc, s) ==
    IF s.kind \in {"stoppedState", "runningState"}
    THEN Res(cc, Nil)
    ELSE Res(cc, newStateTransitionError(cc.state, s))

loadedTransition(cc, s) ==
    Res([cc EXCEPT !.state = s], Nil)

\* c.state.transition(s): dispatch on the kind of the current state
transition(cc, e, s) ==
    CASE cc.state.kind = "stoppedState"  -> stoppedTransition(cc, s)
      [] cc.state.kind = "runningState"  -> runningTransition(cc, e, s)
      [] cc.state.kind = "createdState"  -> createdTransition(cc, s)
      [] cc.state.kind = "pausedState"   -> pausedTransition(cc, s)
      [] cc.state.kind = "restoredState" -> restoredTransition(cc, s)
      [] cc.state.kind = "loadedState"   -> loadedTransition(cc, s)

----------------------------------------------------------------------------
(* destroy *)

DRes(cc, e, ret, tr, ex) ==
    [c |-> cc, env |-> e, ret |-> ret, trace |-> tr, exited |-> ex]

ErrOf(ok, name) == IF ok THEN "" ELSE name

\* runPoststopHooks(c): the result, the environment after it, the calls made
runPoststopHooks(cc, e, o) ==
    IF config.hooks = "nil"
    THEN [ret |-> Nil, env |-> e, trace |-> <<>>]
    ELSE IF o.hooks = "ociStateErr"
    THEN [ret |-> Err("ociStateErr"), env |-> e,
          trace |-> <<Ev("currentOCIState", "ociStateErr")>>]
    ELSE [ret |-> IF o.hooks = "ok" THEN Nil ELSE Err("hookErr"),
          env |-> e,
          trace |-> <<Ev("currentOCIState", ""),
                      Ev("RunHooks", ErrOf(o.hooks = "ok", "hookErr"))>>]

\* `if ierr := ...; err == nil { err = ierr }`: the first error is kept
firstErr_last(err, next) == IF next # Nil THEN next ELSE err

firstErr(err, next) == IF err = Nil THEN next ELSE err

\* c.initProcess = nil
clearInitProcess_kept(cc) == cc

clearInitProcess(cc) == [cc EXCEPT !.initProcess = "nil"]

\* c.state = &stoppedState{c: c}
setStopped(cc) == [cc EXCEPT !.state = stoppedState]

\* destroy(c): the global destroy protocol
destroy_hooksBeforeClear(cc, e, o) ==
    LET needKill == ~config.newPid \/ config.pidPath
        t0   == <<Ev("destroy", "")>>
        t1   == IF needKill
                THEN t0 \o <<Ev("OpenFile", ""),
                             Ev("signalAllProcesses", ErrOf(o.kill = "ok", "signalErr"))>>
                ELSE t0
        err2 == IF o.cgroupDestroy THEN Nil ELSE Err("cgroupErr")
        t2   == t1 \o <<Ev("cgroupManager.Destroy", ErrOf(o.cgroupDestroy, "cgroupErr"))>>
        hasRdt == config.intelRdtManager # "nil"
        ierr == IF o.rdtDestroy THEN Nil ELSE Err("rdtErr")
        err3 == IF hasRdt THEN firstErr(err2, ierr) ELSE err2
        t3   == IF hasRdt
                THEN t2 \o <<Ev("intelRdtManager.Destroy", ErrOf(o.rdtDestroy, "rdtErr"))>>
                ELSE t2
        rerr == IF o.removeAll THEN Nil ELSE Err("rootErr")
        err4 == firstErr(err3, rerr)
        t4   == t3 \o <<Ev("RemoveAll", ErrOf(o.removeAll, "rootErr"))>>
        h    == runPoststopHooks(cc, e, o)
        err6 == firstErr(err4, h.ret)
        t5   == t4 \o <<Ev("runPoststopHooks", IF h.ret = Nil THEN "" ELSE h.ret.err)>>
                   \o h.trace
        c5   == clearInitProcess(cc)
        t6   == t5 \o <<Ev("clearInitProcess", "")>>
        c7   == setStopped(c5)
        t7   == t6 \o <<Ev("setStopped", "")>>
    IN  IF needKill /\ o.kill = "openErr"
        THEN \* log.Fatal: the process exits inside step 1
             DRes(cc, e, Err("fatal"), t0 \o <<Ev("OpenFile", "openErr")>>, TRUE)
        ELSE DRes(c7, h.env, err6, t7, FALSE)

destroy(cc, e, o) ==
    LET needKill == ~config.newPid \/ config.pidPath
        t0   == <<Ev("destroy", "")>>
        \* lines 40-66: debug log, force-kill of the cgroup's processes
        t1   == IF needKill
                THEN t0 \o <<Ev("OpenFile", ""),
                             Ev("signalAllProcesses", ErrOf(o.kill = "ok", "signalErr"))>>
                ELSE t0
        \* line 67
        err2 == IF o.cgroupDestroy THEN Nil ELSE Err("cgroupErr")
        t2   == t1 \o <<Ev("cgroupManager.Destroy", ErrOf(o.cgroupDestroy, "cgroupErr"))>>
        \* lines 68-72
        hasRdt == config.intelRdtManager # "nil"
        ierr == IF o.rdtDestroy THEN Nil ELSE Err("rdtErr")
        err3 == IF hasRdt THEN firstErr(err2, ierr) ELSE err2
        t3   == IF hasRdt
                THEN t2 \o <<Ev("intelRdtManager.Destroy", ErrOf(o.rdtDestroy, "rdtErr"))>>
                ELSE t2
        \* lines 73-75
        rerr == IF o.removeAll THEN Nil ELSE Err("rootErr")
        err4 == firstErr(err3, rerr)
        t4   == t3 \o <<Ev("RemoveAll", ErrOf(o.removeAll, "rootErr"))>>
        \* line 76
        c5   == clearInitProcess(cc)
        t5   == t4 \o <<Ev("clearInitProcess", "")>>
        \* lines 77-79
        h    == runPoststopHooks(c5, e, o)
        err6 == firstErr(err4, h.ret)
        t6   == t5 \o <<Ev("runPoststopHooks", IF h.ret = Nil THEN "" ELSE h.ret.err)>>
                   \o h.trace
        \* line 80
        c7   == setStopped(c5)
        t7   == t6 \o <<Ev("setStopped", "")>>
    IN  IF needKill /\ o.kill = "openErr"
        THEN \* log.Fatal: the process exits inside step 1
             DRes(cc, e, Err("fatal"), t0 \o <<Ev("OpenFile", "openErr")>>, TRUE)
        ELSE DRes(c7, h.env, err6, t7, FALSE)

Prepend(tr, d) == [d EXCEPT !.trace = tr \o @]

stoppedDestroy(cc, e, o) == destroy(cc, e, o)

runningDestroy_noLivenessCheck(cc, e, o) == destroy(cc, e, o)

runningDestroy(cc, e, o) ==
    IF runType(cc, e) = "Running"
    THEN DRes(cc, e, ErrRunning, <<>>, FALSE)
    ELSE destroy(cc, e, o)

createdDestroy(cc, e, o) ==
    IF cc.initProcess = "nil"
    THEN \* method call on a nil interface value
         DRes(cc, e, Err("panic"), <<>>, TRUE)
    ELSE Prepend(<<Ev("initProcess.signal", ErrOf(o.first = "ok", "signalErr"))>>,
                 destroy(cc, e, o))

pausedDestroy_thawsFirst(cc, e, o) ==
    LET t == runType(cc, e) IN
    IF o.first # "ok"
    THEN DRes(cc, e, Err("freezeErr"), <<Ev("Freeze", "freezeErr")>>, FALSE)
    ELSE IF t # "Running" /\ t # "Created"
    THEN Prepend(<<Ev("Freeze", "")>>, destroy(cc, [e EXCEPT !.frozen = FALSE], o))
    ELSE DRes(cc, [e EXCEPT !.frozen = FALSE], ErrPaused, <<Ev("Freeze", "")>>, FALSE)

pausedDestroy(cc, e, o) ==
    LET t == runType(cc, e) IN
    IF t # "Running" /\ t # "Created"
    THEN IF o.first # "ok"
         THEN DRes(cc, e, Err("freezeErr"), <<Ev("Freeze", "freezeErr")>>, FALSE)
         ELSE Prepend(<<Ev("Freeze", "")>>, destroy(cc, [e EXCEPT !.frozen = FALSE], o))
    ELSE DRes(cc, e, ErrPaused, <<>>, FALSE)

restoredDestroy_ignoresStatError(cc, e, o) ==
    Prepend(<<Ev("Stat", CASE o.first = "notExist" -> "ENOENT"
                           [] o.first = "err" -> "statErr"
                           [] OTHER -> "")>>,
            destroy(cc, e, o))

restoredDestroy(cc, e, o) ==
    IF o.first = "err"
    THEN DRes(cc, e, Err("statErr"), <<Ev("Stat", "statErr")>>, FALSE)
    ELSE Prepend(<<Ev("Stat", IF o.first = "notExist" THEN "ENOENT" ELSE "")>>,
                 destroy(cc, e, o))

\* linuxContainer.refreshState(): the state the live inspection determines
refreshState(cc, e, o) ==
    IF ~o.isPaused
    THEN Res(cc, Err("isPausedErr"))
    ELSE IF e.frozen
    THEN transition(cc, e, pausedState)
    ELSE LET t == runType(cc, e) IN
         IF t = "Created" THEN transition(cc, e, createdState)
         ELSE IF t = "Running" THEN transition(cc, e, runningState)
         ELSE transition(cc, e, stoppedState)

\* c.state.destroy() for every state but loadedState
stateDestroy(cc, e, o) ==
    CASE cc.state.kind = "stoppedState"  -> stoppedDestroy(cc, e, o)
      [] cc.state.kind = "runningState"  -> runningDestroy(cc, e, o)
      [] cc.state.kind = "createdState"  -> createdDestroy(cc, e, o)
      [] cc.state.kind = "pausedState"   -> pausedDestroy(cc, e, o)
      [] cc.state.kind = "restoredState" -> restoredDestroy(cc, e, o)

loadedDestroy(cc, e, o) ==
    LET r == refreshState(cc, e, o) IN
    IF r.ret # Nil
    THEN DRes(r.c, e, r.ret, <<Ev("refreshState", r.ret.err)>>, FALSE)
    ELSE Prepend(<<Ev("refreshState", "")>>, stateDestroy(r.c, e, o))

\* c.state.destroy()
containerDestroy(cc, e, o) ==
    IF cc.state.kind = "loadedState"
    THEN loadedDestroy(cc, e, o)
    ELSE stateDestroy(cc, e, o)

----------------------------------------------------------------------------
(* Specification *)

Configs ==
    [newPid : BOOLEAN, pidPath : BOOLEAN, hooks : {"nil", "set"},
     intelRdtManager : {"nil", "set"}]

FreshEnv(l, f) ==
    [liveness |-> l, frozen |-> f]

NoCall == [op |-> "none", to |-> NoState, pre |-> <<>>, ret |-> Nil]

Init ==
    /\ config \in Configs
    /\ \E st \in States, ip \in {"nil", "init"} :
          /\ (ip = "nil" => st.kind = "stoppedState")
          /\ c = [state |-> st, initProcess |-> ip]
    /\ \E l \in Statuses \ {"Paused"}, f \in BOOLEAN : env = FreshEnv(l, f)
    /\ trace = <<>>
    /\ last = NoCall
    /\ exited = FALSE
    /\ fs = <<>>
    /\ procs = <<>>

Transition ==
    /\ ~exited
    /\ \E s \in States :
          LET r == transition(c, env, s) IN
          /\ c' = r.c
          /\ last' = [op |-> "transition", to |-> s,
                      pre |-> <<c, env>>, ret |-> r.ret]
    /\ trace' = <<>>
    /\ UNCHANGED <<config, env, exited>>
    /\ UNCHANGED cpuVars

\* The results of the external calls one destroy makes. kill: the debug
\* log and signalAllProcesses of step 1; hooks: the state snapshot and the
\* poststop hooks; first: the call a state makes before the protocol
\* (initProcess.signal, Freeze or Stat); isPaused: refreshState's probe.
\* The result of a call the configuration or the state rules out is left at
\* its default, so that each distinct run is enumerated once.
Outcomes(cc) ==
    [kill : IF config.newPid /\ ~config.pidPath
            THEN {"ok"} ELSE {"ok", "openErr", "signalErr"},
     cgroupDestroy : BOOLEAN,
     rdtDestroy : IF config.intelRdtManager = "nil" THEN {TRUE} ELSE BOOLEAN,
     removeAll : BOOLEAN,
     hooks : IF config.hooks = "nil"
             THEN {"ok"} ELSE {"ok", "ociStateErr", "hookErr"},
     first : CASE cc.state.kind \in {"stoppedState", "runningState"} -> {"ok"}
               [] cc.state.kind = "restoredState" -> {"ok", "err", "notExist"}
               [] OTHER -> {"ok", "err"},
     isPaused : IF cc.state.kind = "loadedState" THEN BOOLEAN ELSE {TRUE}]

Destroy ==
    /\ ~exited
    /\ \E o \in Outcomes(c) :
          LET d == containerDestroy(c, env, o) IN
          /\ c' = d.c
          /\ env' = d.env
          /\ trace' = d.trace
          /\ exited' = d.exited
          /\ last' = [op |-> "destroy", to |-> NoState,
                      pre |-> <<c, env>>, ret |-> d.ret]
    /\ UNCHANGED config
    /\ UNCHANGED cpuVars

\* The world outside: the init process starts, runs or dies; the cgroup is
\* frozen or thawed by another party.
EnvChange ==
    /\ ~exited
    /\ \E l \in Statuses \ {"Paused"}, f \in BOOLEAN :
          /\ env' = [env EXCEPT !.liveness = l, !.frozen = f]
          /\ env' # env
    /\ last' = [op |-> "env", to |-> NoState, pre |-> <<c, env>>, ret |-> Nil]
    /\ trace' = <<>>
    /\ UNCHANGED <<c, config, exited>>
    /\ UNCHANGED cpuVars

Next == Transition \/ Destroy \/ EnvChange

Spec == Init /\ [][Next]_vars
----------------------------------------------------------------------------
(* CPU resource controller (cpu.go): texts and ledgers *)

NumCores == 2
MaxRuntime == 2
MaxInt32 == 2147483647

\* A text is the sequence of the tokens its single spaces separate, which is
\* what strings.Split(text, " ") returns; the empty text is one empty token.
\* <<>> stands for a file that cannot be read.
Num(n) == [t |-> "int", v |-> n]
Empty  == [t |-> "empty", v |-> 0]
Word   == [t |-> "word", v |-> 0]
NoFile == <<>>

\* strconv.ParseInt(token, 10, 32) succeeds
ParsesInt32(tok) == tok.t = "int" /\ tok.v >= -MaxInt32 - 1 /\ tok.v <= MaxInt32

\* strconv.Atoi with its error dropped: 0 for what is not a number
Atoi(tok) == IF tok.t = "int" THEN tok.v ELSE 0

\* readCpuRtMultiRuntimeFile: the runtimes, the error, or the panic
readCpuRtMultiRuntimeFile_defaultsOnMalformed(text) ==
    IF text = NoFile
    THEN [runtimes |-> <<>>, err |-> "readErr", panic |-> FALSE]
    ELSE IF Len(text) < 2
    THEN [runtimes |-> <<>>, err |-> "", panic |-> TRUE]
    ELSE LET strs == SubSeq(text, 1, Len(text) - 2) IN
         [runtimes |-> [i \in 1..Len(strs) |->
                           IF ParsesInt32(strs[i]) THEN strs[i].v ELSE 0],
          err |-> "", panic |-> FALSE]

readCpuRtMultiRuntimeFile(text) ==
    IF text = NoFile
    THEN [runtimes |-> <<>>, err |-> "readErr", panic |-> FALSE]
    ELSE IF Len(text) < 2
    THEN \* runtimeStrings[:len(runtimeStrings)-2]: slice bounds out of range
         [runtimes |-> <<>>, err |-> "", panic |-> TRUE]
    ELSE LET strs == SubSeq(text, 1, Len(text) - 2) IN
         IF \E i \in 1..Len(strs) : ~ParsesInt32(strs[i])
         THEN [runtimes |-> <<>>, err |-> "", panic |-> TRUE]
         ELSE [runtimes |-> [i \in 1..Len(strs) |-> strs[i].v],
               err |-> "", panic |-> FALSE]

\* lines 132-141: runtimes[cpuIND] += r.CpuRtRuntime for each cpu of the
\* cpuset; core index k is position k + 1
Occurrences(cpus, k) == Cardinality({i \in 1..Len(cpus) : Atoi(cpus[i]) = k})

OutOfRange(runtimes, cpus) ==
    \E i \in 1..Len(cpus) : Atoi(cpus[i]) < 0 \/ Atoi(cpus[i]) >= Len(runtimes)

addRuntime(runtimes, r) ==
    [i \in 1..Len(runtimes) |->
        runtimes[i] + r.CpuRtRuntime * Occurrences(r.CpusetCpus, i - 1)]

\* lines 142-144: str + Itoa(cpu) + " " + FormatInt(runtime) + " "
RECURSIVE ledgerText(_)
ledgerText(runtimes) ==
    IF runtimes = <<>>
    THEN <<Empty>>
    ELSE LET n == Len(runtimes) IN
         SubSeq(ledgerText(SubSeq(runtimes, 1, n - 1)), 1, 2 * (n - 1))
             \o <<Num(n - 1), Num(runtimes[n]), Empty>>

\* writeToParentMultiRuntime on one ledger: the text after the call, the
\* returned error, how the call ended ("return", "fatal", "panic") and the
\* file operations made. log: the debug log opens; write: os.WriteFile works.
writeToParentMultiRuntime(text, r, log, write) ==
    LET rd == readCpuRtMultiRuntimeFile(text) IN
    IF ~log
    THEN [text |-> text, err |-> "", end |-> "fatal", ops |-> <<>>]
    ELSE IF rd.panic \/ OutOfRange(rd.runtimes, r.CpusetCpus)
    THEN [text |-> text, err |-> "", end |-> "panic", ops |-> <<"read">>]
    ELSE IF ~write
    THEN [text |-> text, err |-> "writeErr", end |-> "return",
          ops |-> <<"read", "write">>]
    ELSE [text |-> ledgerText(addRuntime(rd.runtimes, r)), err |-> "",
          end |-> "return", ops |-> <<"read", "write">>]

----------------------------------------------------------------------------
(* CPU resource controller (cpu.go): SetRtSched, Apply, Set *)

\* the ancestors in the order SetRtSched updates them: kubepods.slice,
\* kubepods.slice/kubepods-besteffort.slice, filepath.Dir(path)
Levels_outward == <<"pod", "besteffort", "kubepods">>

Levels == <<"kubepods", "besteffort", "pod">>

NoRecord == [cpus |-> <<>>, runtime |-> 0]

\* the result of a call: the files after it, what it returned, how it ended
\* ("return", "fatal" for log.Fatal, "panic") and the file operations it made
CRes(f, ret, end, tr) == [fs |-> f, ret |-> ret, end |-> end, trace |-> tr]

\* lines 63-72: the contributions to the ancestors from level i on
RECURSIVE contributeFrom(_, _, _, _)
contributeFrom(f, r, o, i) ==
    IF i > Len(Levels)
    THEN CRes(f, Nil, "return", <<>>)
    ELSE LET lv == Levels[i]
             w  == writeToParentMultiRuntime(f[lv], r, o[lv] # "fatal", o[lv] = "ok")
             tr == [j \in 1..Len(w.ops) |->
                       Ev(w.ops[j] \o ":" \o lv,
                          IF w.ops[j] = "write" THEN w.err ELSE "")]
         IN  IF w.end # "return"
             THEN CRes(f, Nil, w.end, tr \o <<Ev(w.end \o ":" \o lv, "")>>)
             ELSE LET rest == contributeFrom([f EXCEPT ![lv] = w.text], r, o, i + 1)
                  IN  [rest EXCEPT !.trace = tr \o @]

\* CpuGroup.SetRtSched
SetRtSched(f, r, o) ==
    LET \* lines 41-57: period stays set when the write was rejected with EINVAL
        \* and a runtime is requested; nothing reads it afterwards
        deferred == r.CpuRtPeriod # 0 /\ o.rtPeriod = "EINVAL" /\ r.CpuRtRuntime # 0
        t1 == IF r.CpuRtPeriod # 0
              THEN <<Ev("write:cpu.rt_period_us", ErrOf(o.rtPeriod = "ok", o.rtPeriod))>>
              ELSE <<>>
        f1 == IF r.CpuRtPeriod # 0 /\ o.rtPeriod = "ok"
              THEN [f EXCEPT !.rt_period = r.CpuRtPeriod] ELSE f
    IN  IF r.CpuRtPeriod # 0 /\ o.rtPeriod # "ok" /\ ~deferred
        THEN CRes(f, Err(o.rtPeriod), "return", t1)
        ELSE IF r.CpuRtRuntime = 0
        THEN CRes(f1, Nil, "return", t1)
        ELSE LET a == contributeFrom(f1, r, o, 1) IN
             IF a.end # "return"
             THEN [a EXCEPT !.trace = t1 \o @]
             ELSE IF ~o.own
             THEN CRes(a.fs, Err("ownWriteErr"), "return",
                       t1 \o a.trace \o <<Ev("write:cpu.rt_multi_runtime_us", "ownWriteErr")>>)
             ELSE CRes([a.fs EXCEPT !.rt_multi_runtime =
                           [cpus |-> r.CpusetCpus, runtime |-> r.CpuRtRuntime]],
                       Nil, "return",
                       t1 \o a.trace \o <<Ev("write:cpu.rt_multi_runtime_us", "")>>)

\* CpuGroup.Apply
Apply_registersPidFirst(f, r, pid, o) ==
    IF ~o.mkdir
    THEN CRes(f, Err("mkdirErr"), "return", <<Ev("MkdirAll", "mkdirErr")>>)
    ELSE LET a == SetRtSched([f EXCEPT !.procs = pid], r, o) IN
         [a EXCEPT !.trace = <<Ev("MkdirAll", ""), Ev("WriteCgroupProc", "")>>
                                \o @ \o <<Ev("SetRtSched",
                                             IF a.end # "return" THEN a.end
                                             ELSE IF a.ret = Nil THEN ""
                                             ELSE a.ret.err)>>]

Apply(f, r, pid, o) ==
    IF ~o.mkdir
    THEN CRes(f, Err("mkdirErr"), "return", <<Ev("MkdirAll", "mkdirErr")>>)
    ELSE LET a  == SetRtSched(f, r, o)
             t1 == <<Ev("MkdirAll", "")>> \o a.trace \o <<Ev("SetRtSched",
                       IF a.end # "return" THEN a.end
                       ELSE IF a.ret = Nil THEN "" ELSE a.ret.err)>>
         IN  IF a.end # "return" \/ a.ret # Nil
             THEN [a EXCEPT !.trace = t1]
             ELSE IF ~o.procs
             THEN CRes(a.fs, Err("procsErr"), "return",
                       t1 \o <<Ev("WriteCgroupProc", "procsErr")>>)
             ELSE CRes([a.fs EXCEPT !.procs = pid], Nil, "return",
                       t1 \o <<Ev("WriteCgroupProc", "")>>)

\* CpuGroup.Set, lines 158-174: the shares are written, read back and compared
setShares(f, r, o) ==
    IF r.CpuShares = 0
    THEN CRes(f, Nil, "return", <<>>)
    ELSE IF o.shares = "writeErr"
    THEN CRes(f, Err("sharesWriteErr"), "return",
              <<Ev("write:cpu.shares", "sharesWriteErr")>>)
    ELSE LET f1 == [f EXCEPT !.shares = r.CpuShares]
             t1 == <<Ev("write:cpu.shares", "")>>
         IN  CASE o.shares = "readErr" ->
                    CRes(f1, Err("sharesReadErr"), "return",
                         t1 \o <<Ev("read:cpu.shares", "sharesReadErr")>>)
               [] o.shares = "less" ->
                    CRes(f1, Err("maximum allowed cpu-shares"), "return",
                         t1 \o <<Ev("read:cpu.shares", "")>>)
               [] o.shares = "greater" ->
                    CRes(f1, Err("minimum allowed cpu-shares"), "return",
                         t1 \o <<Ev("read:cpu.shares", "")>>)
               [] OTHER ->
                    CRes(f1, Nil, "return", t1 \o <<Ev("read:cpu.shares", "")>>)

\* CpuGroup.Set, lines 176-202: CFS period and quota
setCfs_noRetry(f, r, o) ==
    LET deferred == r.CpuPeriod # 0 /\ o.cfsPeriod = "EINVAL" /\ r.CpuQuota # 0
        t1 == IF r.CpuPeriod # 0
              THEN <<Ev("write:cpu.cfs_period_us", ErrOf(o.cfsPeriod = "ok", o.cfsPeriod))>>
              ELSE <<>>
        f1 == IF r.CpuPeriod # 0 /\ o.cfsPeriod = "ok"
              THEN [f EXCEPT !.cfs_period = r.CpuPeriod] ELSE f
    IN  IF r.CpuPeriod # 0 /\ o.cfsPeriod # "ok" /\ ~deferred
        THEN CRes(f, Err(o.cfsPeriod), "return", t1)
        ELSE IF r.CpuQuota = 0
        THEN CRes(f1, Nil, "return", t1)
        ELSE IF ~o.quota
        THEN CRes(f1, Err("quotaErr"), "return",
                  t1 \o <<Ev("write:cpu.cfs_quota_us", "quotaErr")>>)
        ELSE CRes([f1 EXCEPT !.cfs_quota = r.CpuQuota], Nil, "return",
                  t1 \o <<Ev("write:cpu.cfs_quota_us", "")>>)

setCfs(f, r, o) ==
    LET deferred == r.CpuPeriod # 0 /\ o.cfsPeriod = "EINVAL" /\ r.CpuQuota # 0
        t1 == IF r.CpuPeriod # 0
              THEN <<Ev("write:cpu.cfs_period_us", ErrOf(o.cfsPeriod = "ok", o.cfsPeriod))>>
              ELSE <<>>
        f1 == IF r.CpuPeriod # 0 /\ o.cfsPeriod = "ok"
              THEN [f EXCEPT !.cfs_period = r.CpuPeriod] ELSE f
    IN  IF r.CpuPeriod # 0 /\ o.cfsPeriod # "ok" /\ ~deferred
        THEN CRes(f, Err(o.cfsPeriod), "return", t1)
        ELSE IF r.CpuQuota = 0
        THEN CRes(f1, Nil, "return", t1)
        ELSE IF ~o.quota
        THEN CRes(f1, Err("quotaErr"), "return",
                  t1 \o <<Ev("write:cpu.cfs_quota_us", "quotaErr")>>)
        ELSE LET f2 == [f1 EXCEPT !.cfs_quota = r.CpuQuota]
                 t2 == t1 \o <<Ev("write:cpu.cfs_quota_us", "")>>
             IN  IF ~deferred
                 THEN CRes(f2, Nil, "return", t2)
                 ELSE IF ~o.retry
                 THEN CRes(f2, Err("retryErr"), "return",
                           t2 \o <<Ev("write:cpu.cfs_period_us", "retryErr")>>)
                 ELSE CRes([f2 EXCEPT !.cfs_period = r.CpuPeriod], Nil, "return",
                           t2 \o <<Ev("write:cpu.cfs_period_us", "")>>)

\* CpuGroup.Set
Set(f, r, o) ==
    LET a == setShares(f, r, o) IN
    IF a.ret # Nil
    THEN a
    ELSE LET b == setCfs(a.fs, r, o) IN
         IF b.ret # Nil
         THEN [b EXCEPT !.trace = a.trace \o @]
         ELSE LET d == SetRtSched(b.fs, r, o) IN
              [d EXCEPT !.trace = a.trace \o b.trace \o @]

----------------------------------------------------------------------------
(* One call of the controller on a container's cgroup *)

CpuShares == 512
CpuPeriod == 100000
CpuQuota == 50000
CpuRtPeriod == 1000000
Pid == 42

Cpusets == {<<Num(0)>>, <<Num(1)>>, <<Num(0), Num(1)>>}

\* what an ancestor's ledger may hold before the call: NumCores runtimes and
\* the two tokens the reader drops, the text a contribution wrote, a text
\* with a token that is no number, no readable file
ZeroLedger == [i \in 1..NumCores + 2 |-> IF i <= NumCores THEN Num(0) ELSE Empty]
BadLedger == [ZeroLedger EXCEPT ![1] = Word]
LedgerTexts ==
    {ZeroLedger, ledgerText([i \in 1..NumCores |-> 0]), BadLedger, NoFile}

InitialFiles ==
    [kubepods : LedgerTexts, besteffort : LedgerTexts, pod : LedgerTexts,
     rt_period : {0}, rt_multi_runtime : {NoRecord}, cfs_period : {0},
     cfs_quota : {0}, shares : {0}, procs : {0}]

\* Apply reads the real-time fields and the cpuset only
ApplyResources ==
    [CpuShares : {0}, CpuPeriod : {0}, CpuQuota : {0},
     CpuRtPeriod : {0, CpuRtPeriod}, CpuRtRuntime : 0..MaxRuntime,
     CpusetCpus : Cpusets]

SetResources ==
    [CpuShares : {0, CpuShares}, CpuPeriod : {0, CpuPeriod},
     CpuQuota : {0, CpuQuota}, CpuRtPeriod : {0, CpuRtPeriod},
     CpuRtRuntime : {0, MaxRuntime}, CpusetCpus : {<<Num(0)>>}]

\* The results of the file operations of one call; the result of an operation
\* the resources rule out is left at its default.
CpuOutcomes(r) ==
    LET lv == IF r.CpuRtRuntime = 0 THEN {"ok"} ELSE {"ok", "writeErr", "fatal"} IN
    [mkdir : BOOLEAN, procs : BOOLEAN,
     shares : IF r.CpuShares = 0 THEN {"ok"}
              ELSE {"ok", "writeErr", "readErr", "less", "greater"},
     cfsPeriod : IF r.CpuPeriod = 0 THEN {"ok"} ELSE {"ok", "EINVAL", "EIO"},
     quota : IF r.CpuQuota = 0 THEN {TRUE} ELSE BOOLEAN,
     retry : IF r.CpuPeriod = 0 \/ r.CpuQuota = 0 THEN {TRUE} ELSE BOOLEAN,
     rtPeriod : IF r.CpuRtPeriod = 0 THEN {"ok"} ELSE {"ok", "EINVAL", "EIO"},
     kubepods : lv, besteffort : lv, pod : lv,
     own : IF r.CpuRtRuntime = 0 THEN {TRUE} ELSE BOOLEAN]

CpuInit ==
    /\ c = [state |-> stoppedState, initProcess |-> "nil"]
    /\ config = [newPid |-> TRUE, pidPath |-> FALSE, hooks |-> "nil",
                 intelRdtManager |-> "nil"]
    /\ env = FreshEnv("Stopped", FALSE)
    /\ trace = <<>>
    /\ last = NoCall
    /\ exited = FALSE
    /\ fs \in InitialFiles
    /\ procs = <<>>

\* the call ends: it returns, or it ends the process
Ended(d, op, r) ==
    /\ fs' = d.fs
    /\ trace' = d.trace
    /\ exited' = (d.end # "return")
    /\ last' = [op |-> op, to |-> NoState, pre |-> <<fs, r>>,
                ret |-> IF d.end = "return" THEN d.ret ELSE Err(d.end)]
    /\ UNCHANGED <<c, config, env, procs>>

CpuApply ==
    /\ last.op = "none"
    /\ \E r \in ApplyResources :
          \E o \in {x \in CpuOutcomes(r) :
                       x.shares = "ok" /\ x.cfsPeriod = "ok" /\ x.quota /\ x.retry} :
             Ended(Apply(fs, r, Pid, o), "apply", r)

CpuSet ==
    /\ last.op = "none"
    /\ \E r \in SetResources :
          \E o \in {x \in CpuOutcomes(r) : x.mkdir /\ x.procs} :
             Ended(Set(fs, r, o), "set", r)

CpuNext == CpuApply \/ CpuSet

SpecCpu == CpuInit /\ [][CpuNext]_vars

----------------------------------------------------------------------------
(* Containers below the same ancestors, one call after the other *)

NumContainers == 2
MaxCalls == 3

Containers == 1..NumContainers
Ancestors == {"kubepods", "besteffort", "pod"}

\* the files of a container's own cgroup before anything is written
NoCgroup ==
    [rt_period |-> 0, rt_multi_runtime |-> NoRecord, cfs_period |-> 0,
     cfs_quota |-> 0, shares |-> 0, procs |-> 0]

NoResources ==
    [CpuShares |-> 0, CpuPeriod |-> 0, CpuQuota |-> 0, CpuRtPeriod |-> 0,
     CpuRtRuntime |-> 0, CpusetCpus |-> <<>>]

\* a container asks for a real-time runtime on some cores
LedgerResources ==
    [CpuShares : {0}, CpuPeriod : {0}, CpuQuota : {0}, CpuRtPeriod : {0},
     CpuRtRuntime : 1..MaxRuntime, CpusetCpus : Cpusets]

\* every file operation of the call succeeds
OkOutcome ==
    [mkdir |-> TRUE, procs |-> TRUE, shares |-> "ok", cfsPeriod |-> "ok",
     quota |-> TRUE, retry |-> TRUE, rtPeriod |-> "ok", kubepods |-> "ok",
     besteffort |-> "ok", pod |-> "ok", own |-> TRUE]

\* every step of the destroy protocol succeeds
OkDestroy ==
    [kill |-> "ok", cgroupDestroy |-> TRUE, rdtDestroy |-> TRUE,
     removeAll |-> TRUE, hooks |-> "ok", first |-> "ok", isPaused |-> TRUE]

\* the files a call on container k works on: the shared ancestors' ledgers
\* and the container's own cgroup
Files(k) ==
    [kubepods |-> fs.kubepods, besteffort |-> fs.besteffort, pod |-> fs.pod,
     rt_period |-> procs[k].cg.rt_period,
     rt_multi_runtime |-> procs[k].cg.rt_multi_runtime,
     cfs_period |-> procs[k].cg.cfs_period, cfs_quota |-> procs[k].cg.cfs_quota,
     shares |-> procs[k].cg.shares, procs |-> procs[k].cg.procs]

Shared(f) == [kubepods |-> f.kubepods, besteffort |-> f.besteffort, pod |-> f.pod]

Own(f) ==
    [rt_period |-> f.rt_period, rt_multi_runtime |-> f.rt_multi_runtime,
     cfs_period |-> f.cfs_period, cfs_quota |-> f.cfs_quota,
     shares |-> f.shares, procs |-> f.procs]

\* the container has been started and not destroyed
Live(k) == procs[k].c.initProcess # "nil"

RECURSIVE callsUpTo(_)
callsUpTo(k) == IF k = 0 THEN 0 ELSE callsUpTo(k - 1) + procs[k].calls

LedgerInit ==
    /\ c = [state |-> stoppedState, initProcess |-> "nil"]
    /\ config = [newPid |-> TRUE, pidPath |-> FALSE, hooks |-> "nil",
                 intelRdtManager |-> "nil"]
    /\ env = FreshEnv("Stopped", FALSE)
    /\ trace = <<>>
    /\ last = NoCall
    /\ exited = FALSE
    /\ fs = [kubepods |-> ZeroLedger, besteffort |-> ZeroLedger, pod |-> ZeroLedger]
    /\ procs = [k \in Containers |->
                   [c |-> [state |-> stoppedState, initProcess |-> "nil"],
                    r |-> NoResources, calls |-> 0, cg |-> NoCgroup]]

\* the call d of the controller on container k ends
LedgerEnded(d, op, k, r, cc) ==
    /\ fs' = Shared(d.fs)
    /\ procs' = [procs EXCEPT ![k] = [c |-> cc, r |-> r, calls |-> @.calls + 1,
                                      cg |-> Own(d.fs)]]
    /\ trace' = d.trace
    /\ exited' = (d.end # "return")
    /\ last' = [op |-> op, to |-> NoState, pre |-> <<fs, k>>,
                ret |-> IF d.end = "return" THEN d.ret ELSE Err(d.end)]
    /\ UNCHANGED <<c, config, env>>

\* a container is started: its cgroup is created and its init process joins
LedgerApply ==
    /\ ~exited
    /\ callsUpTo(NumContainers) < MaxCalls
    /\ \E k \in Containers, r \in LedgerResources :
          /\ procs[k].calls = 0
          /\ LedgerEnded(Apply(Files(k), r, Pid + k, OkOutcome), "apply", k, r,
                         [state |-> createdState, initProcess |-> "init"])

\* the resources of a live container are set again
LedgerSet ==
    /\ ~exited
    /\ callsUpTo(NumContainers) < MaxCalls
    /\ \E k \in Containers :
          /\ Live(k)
          /\ LedgerEnded(Set(Files(k), procs[k].r, OkOutcome), "set", k,
                         procs[k].r, procs[k].c)

\* a live container is destroyed: no step of the protocol names the ledger
\* of an ancestor
LedgerDestroy ==
    /\ ~exited
    /\ \E k \in Containers :
          /\ Live(k)
          /\ LET d == destroy(procs[k].c, env, OkDestroy) IN
             /\ procs' = [procs EXCEPT ![k].c = d.c]
             /\ trace' = d.trace
             /\ exited' = d.exited
             /\ last' = [op |-> "destroy", to |-> NoState, pre |-> <<fs, k>>,
                         ret |-> d.ret]
    /\ UNCHANGED <<c, config, env, fs>>

LedgerNext == LedgerApply \/ LedgerSet \/ LedgerDestroy

SpecLedger == LedgerInit /\ [][LedgerNext]_vars

----------------------------------------------------------------------------
(* Two containers contributing to the same ancestors at the same time *)

Racers == {1, 2}

\* lines 132-145: the text written from the runtimes the call read
writeBack(runtimes, r) == ledgerText(addRuntime(runtimes, r))

\* a contributing call is at ancestor Levels[lv], about to read its ledger
\* (line 130) or to write it (line 145); saw: the texts it has read
RaceInit ==
    /\ c = [state |-> stoppedState, initProcess |-> "nil"]
    /\ config = [newPid |-> TRUE, pidPath |-> FALSE, hooks |-> "nil",
                 intelRdtManager |-> "nil"]
    /\ env = FreshEnv("Stopped", FALSE)
    /\ trace = <<>>
    /\ last = NoCall
    /\ exited = FALSE
    /\ fs = [kubepods |-> ZeroLedger, besteffort |-> ZeroLedger, pod |-> ZeroLedger]
    /\ \E r1 \in LedgerResources, r2 \in LedgerResources :
          procs = [k \in Racers |->
                      [r |-> IF k = 1 THEN r1 ELSE r2, lv |-> 1, phase |-> "read",
                       seen |-> <<>>, saw |-> <<>>]]

Step(op, k) ==
    /\ last' = [op |-> op, to |-> NoState, pre |-> <<fs, k>>, ret |-> Nil]
    /\ UNCHANGED <<c, config, env, trace>>

\* line 130: runtimes, _ := readCpuRtMultiRuntimeFile(path)
RaceRead ==
    /\ ~exited
    /\ \E k \in Racers :
          /\ procs[k].lv <= Len(Levels)
          /\ procs[k].phase = "read"
          /\ LET text == fs[Levels[procs[k].lv]]
                 rd   == readCpuRtMultiRuntimeFile(text)
             IN  /\ procs' = [procs EXCEPT ![k].phase = "write",
                                           ![k].seen = rd.runtimes,
                                           ![k].saw = Append(@, text)]
                 /\ exited' = rd.panic
          /\ UNCHANGED fs
          /\ Step("read", k)

RaceWrite_rereads ==
    /\ ~exited
    /\ \E k \in Racers :
          /\ procs[k].lv <= Len(Levels)
          /\ procs[k].phase = "write"
          /\ LET now == readCpuRtMultiRuntimeFile(fs[Levels[procs[k].lv]]).runtimes IN
             IF OutOfRange(now, procs[k].r.CpusetCpus)
             THEN exited' = TRUE /\ UNCHANGED <<fs, procs>>
             ELSE /\ exited' = FALSE
                  /\ fs' = [fs EXCEPT ![Levels[procs[k].lv]] =
                               writeBack(now, procs[k].r)]
                  /\ procs' = [procs EXCEPT ![k].phase = "read", ![k].lv = @ + 1]
          /\ Step("write", k)

\* lines 132-145: the runtimes read are raised and written back
RaceWrite ==
    /\ ~exited
    /\ \E k \in Racers :
          /\ procs[k].lv <= Len(Levels)
          /\ procs[k].phase = "write"
          /\ IF OutOfRange(procs[k].seen, procs[k].r.CpusetCpus)
             THEN exited' = TRUE /\ UNCHANGED <<fs, procs>>
             ELSE /\ exited' = FALSE
                  /\ fs' = [fs EXCEPT ![Levels[procs[k].lv]] =
                               writeBack(procs[k].seen, procs[k].r)]
                  /\ procs' = [procs EXCEPT ![k].phase = "read", ![k].lv = @ + 1]
          /\ Step("write", k)

RaceNext == RaceRead \/ RaceWrite

SpecRace == RaceInit /\ [][RaceNext]_vars

----------------------------------------------------------------------------
(* The last operation *)

PreC == last.pre[1]
PreEnv == last.pre[2]

\* the init process of the container was alive when the last operation began
PreAlive(st) == PreC.initProcess # "nil" /\ PreEnv.liveness = st

\* the name a state reports as its status
StatusName(st) ==
    CASE st.kind = "stoppedState"  -> "stopped"
      [] st.kind = "runningState"  -> "running"
      [] st.kind = "createdState"  -> "created"
      [] st.kind = "pausedState"   -> "paused"
      [] st.kind = "restoredState" -> "running"
      [] st.kind = "loadedState" /\ st.s = "Created" -> "created"
      [] st.kind = "loadedState" /\ st.s = "Running" -> "running"
      [] st.kind = "loadedState" /\ st.s = "Paused"  -> "paused"
      [] st.kind = "loadedState" /\ st.s = "Stopped" -> "stopped"

\* the transition table: the target kinds each row accepts, the row's own
\* kind apart
Accepted(kind) ==
    CASE kind = "stoppedState"  -> {"runningState", "restoredState"}
      [] kind = "runningState"  -> {"stoppedState", "pausedState"}
      [] kind = "createdState"  -> {"runningState", "pausedState", "stoppedState"}
      [] kind = "pausedState"   -> {"runningState", "stoppedState"}
      [] kind = "restoredState" -> {"stoppedState", "runningState"}
      [] kind = "loadedState"   -> {st.kind : st \in States}

ValidatingKinds ==
    {"createdState", "runningState", "pausedState", "stoppedState", "restoredState"}

----------------------------------------------------------------------------
(* Claims *)

\* C1: a transition whose (current, target) pair is not in the table, for a
\* current state of Created, Running, Paused, Stopped or Restored and a target
\* of another kind, returns an invalid-transition error whose From and To are
\* the status strings of the current and the target state, and leaves the
\* container's state as it was.
C1_InvalidTransitionRejected ==
    (/\ last.op = "transition"
     /\ PreC.state.kind \in ValidatingKinds
     /\ last.to.kind # PreC.state.kind
     /\ last.to.kind \notin Accepted(PreC.state.kind))
    => (/\ last.ret = [err |-> "stateTransitionError",
                       From |-> StatusName(PreC.state),
                       To |-> StatusName(last.to)]
        /\ c = PreC)

C1_Witness ==
    /\ last.op = "transition"
    /\ PreC.state.kind = "restoredState"
    /\ last.to = loadedState("Paused")
    /\ last.ret.err = "stateTransitionError"
    /\ last.ret.From = "running"
    /\ last.ret.To = "paused"

\* C2 as stated: after a transition along a listed pair the current state is
\* the target, the one exception being a current state of Restored, where the
\* call succeeds and the state stays Restored.
C2_ListedPairReachesTarget ==
    (/\ last.op = "transition"
     /\ last.to.kind \in Accepted(PreC.state.kind))
    => IF PreC.state.kind = "restoredState"
       THEN last.ret = Nil /\ c = PreC
       ELSE c.state = last.to

\* C2 amended: as stated, with a second exception: Running to Stopped while
\* the init process is alive is rejected with ErrRunning and the state stays
\* Running.
C2_ListedPairReachesTargetUnlessAlive ==
    (/\ last.op = "transition"
     /\ last.to.kind \in Accepted(PreC.state.kind))
    => IF PreC.state.kind = "restoredState"
       THEN last.ret = Nil /\ c = PreC
       ELSE IF /\ PreC.state.kind = "runningState"
               /\ last.to.kind = "stoppedState"
               /\ PreAlive("Running")
       THEN last.ret = ErrRunning /\ c = PreC
       ELSE c.state = last.to

C2_Witness ==
    /\ last.op = "transition"
    /\ PreC.state.kind = "restoredState"
    /\ last.to.kind = "stoppedState"
    /\ last.ret = Nil
    /\ c.state.kind = "restoredState"

\* C3 as stated: for each of the six kinds a target of the current state's
\* kind is accepted and changes nothing.
C3_SameKindIsNoOp ==
    (/\ last.op = "transition"
     /\ last.to.kind = PreC.state.kind)
    => (last.ret = Nil /\ c = PreC)

\* C3 amended: for Created, Running, Paused and Stopped a target of the same
\* kind is accepted and changes nothing; for Loaded it is accepted and the
\* current state becomes the target, which may wrap another status; for
\* Restored it is rejected with an invalid-transition error and the state is
\* unchanged.
C3_SameKindPerState ==
    (/\ last.op = "transition"
     /\ last.to.kind = PreC.state.kind)
    => CASE PreC.state.kind = "restoredState" ->
              /\ last.ret = [err |-> "stateTransitionError",
                             From |-> "running", To |-> "running"]
              /\ c = PreC
         [] PreC.state.kind = "loadedState" ->
              /\ last.ret = Nil
              /\ c = [PreC EXCEPT !.state = last.to]
         [] OTHER ->
              /\ last.ret = Nil
              /\ c = PreC

C3_Witness ==
    /\ last.op = "transition"
    /\ PreC.state.kind = "createdState"
    /\ last.to.kind = "createdState"
    /\ last.ret = Nil
    /\ c.state.kind = "createdState"

\* C4: Running to Stopped is rejected with ErrRunning, the state staying
\* Running, whenever the init process is alive; otherwise it is accepted and
\* the state becomes Stopped.
C4_RunningToStopped ==
    (/\ last.op = "transition"
     /\ PreC.state.kind = "runningState"
     /\ last.to.kind = "stoppedState")
    => IF PreAlive("Running")
       THEN last.ret = ErrRunning /\ c = PreC
       ELSE last.ret = Nil /\ c.state = stoppedState

C4_Witness ==
    /\ last.op = "transition"
    /\ PreC.state.kind = "runningState"
    /\ last.to.kind = "stoppedState"
    /\ PreAlive("Running")
    /\ last.ret = ErrRunning
    /\ c.state.kind = "runningState"
\* the last operation made the call named step
Called(step) == \E i \in 1..Len(trace) : trace[i].step = step

\* the error of the call named step in the last operation, "" when the call
\* succeeded or was not made
ErrorOf(step) ==
    IF Called(step)
    THEN trace[CHOOSE i \in 1..Len(trace) : trace[i].step = step].err
    ELSE ""

\* the last operation was a destroy that ran the global destroy protocol
RanProtocol == last.op = "destroy" /\ Called("destroy")

\* ... and the protocol returned to its caller
ProtocolReturned == RanProtocol /\ ~exited

\* C5: destroy on a Running state whose init process is alive returns
\* ErrRunning and has no effect: no call on a collaborator is made (nothing
\* signalled, removed or run) and the container and its environment are as
\* before.
C5_RunningDestroyRefused ==
    (/\ last.op = "destroy"
     /\ PreC.state.kind = "runningState"
     /\ PreAlive("Running"))
    => (/\ last.ret = ErrRunning
        /\ trace = <<>>
        /\ c = PreC
        /\ env = PreEnv
        /\ ~exited)

C5_Witness ==
    /\ last.op = "destroy"
    /\ PreC.state.kind = "runningState"
    /\ PreAlive("Running")
    /\ last.ret = ErrRunning
    /\ c.initProcess = "init"

\* C6: destroy on a Paused state whose process is live (created or running)
\* returns ErrPaused without thawing the freezer and without running any step
\* of the protocol; the state stays Paused.
C6_PausedDestroyRefused ==
    (/\ last.op = "destroy"
     /\ PreC.state.kind = "pausedState"
     /\ (PreAlive("Running") \/ PreAlive("Created")))
    => (/\ last.ret = ErrPaused
        /\ ~Called("Freeze")
        /\ trace = <<>>
        /\ env = PreEnv
        /\ c = PreC
        /\ c.state = pausedState)

C6_Witness ==
    /\ last.op = "destroy"
    /\ PreC.state.kind = "pausedState"
    /\ PreAlive("Created")
    /\ PreEnv.frozen
    /\ last.ret = ErrPaused
    /\ env.frozen

\* C7: every execution of the global destroy protocol runs the cgroup-subtree
\* destroy, the Intel RDT destroy when a manager is attached, the removal of
\* the root directory and the poststop hooks.
C7_EveryStepRuns ==
    RanProtocol
    => (/\ Called("cgroupManager.Destroy")
        /\ (config.intelRdtManager # "nil" => Called("intelRdtManager.Destroy"))
        /\ Called("RemoveAll")
        /\ Called("runPoststopHooks"))

\* the first error among the steps, in their order
FirstStepError ==
    LET errs == <<ErrorOf("cgroupManager.Destroy"),
                  ErrorOf("intelRdtManager.Destroy"),
                  ErrorOf("RemoveAll"),
                  ErrorOf("runPoststopHooks")>>
        failed == {i \in 1..4 : errs[i] # ""}
    IN  IF failed = {}
        THEN "nil"
        ELSE errs[CHOOSE i \in failed : \A j \in failed : i <= j]

\* C8: the protocol returns the first error among cgroup-subtree destroy,
\* Intel RDT destroy, root removal and poststop hooks, nil if none of them
\* failed, and never the failure of the force-kill of step 1.
C8_FirstErrorReturned ==
    ProtocolReturned
    => (/\ last.ret = Err(FirstStepError)
        /\ last.ret.err # "signalErr")

C8_Witness ==
    /\ ProtocolReturned
    /\ ErrorOf("signalAllProcesses") = "signalErr"
    /\ ErrorOf("cgroupManager.Destroy") = ""
    /\ ErrorOf("intelRdtManager.Destroy") = "rdtErr"
    /\ ErrorOf("RemoveAll") = "rootErr"
    /\ ErrorOf("runPoststopHooks") = "hookErr"
    /\ last.ret = Err("rdtErr")

\* C9: whenever the protocol returns, with or without an error, the current
\* state is Stopped and the init-process handle is cleared.
C9_StoppedOnReturn ==
    ProtocolReturned
    => (c.state = stoppedState /\ c.initProcess = "nil")

C9_Witness ==
    /\ ProtocolReturned
    /\ PreC.state.kind = "createdState"
    /\ PreC.initProcess = "init"
    /\ last.ret = Err("cgroupErr")
    /\ c.state = stoppedState
    /\ c.initProcess = "nil"

\* C10: destroy on a Restored state returns the error of the probe of the
\* checkpoint marker, before any cleanup and with the state unchanged, when
\* that error is not 'does not exist'; when the marker exists or does not
\* exist the global destroy protocol runs.
C10_RestoredDestroyProbe ==
    (/\ last.op = "destroy"
     /\ PreC.state.kind = "restoredState")
    => (/\ trace[1].step = "Stat"
        /\ IF trace[1].err \notin {"", "ENOENT"}
           THEN /\ last.ret = Err(trace[1].err)
                /\ Len(trace) = 1
                /\ c = PreC
                /\ env = PreEnv
           ELSE RanProtocol)

C10_Witness ==
    /\ last.op = "destroy"
    /\ PreC.state.kind = "restoredState"
    /\ ErrorOf("Stat") = "statErr"
    /\ last.ret = Err("statErr")
    /\ c.state.kind = "restoredState"

----------------------------------------------------------------------------
(* The last call of the controller *)

\* the files and the resources the last call of the controller began with
PreFs == last.pre[1]
PreR == last.pre[2]

\* where in the last operation the call named step was made
Positions(step) == {i \in 1..Len(trace) : trace[i].step = step}

\* every call named a preceded every call named b
Before(a, b) == \A i \in Positions(a), j \in Positions(b) : i < j

FirstOf(S) == CHOOSE i \in S : \A j \in S : i <= j

\* the writes that configure the real-time bandwidth of the cgroup
RtWrites ==
    {"write:cpu.rt_period_us", "write:kubepods", "write:besteffort",
     "write:pod", "write:cpu.rt_multi_runtime_us"}

\* C11: in apply the real-time bandwidth is configured before the process id
\* is registered: the registration is attempted only after SetRtSched has
\* returned nil and after every real-time write; when MkdirAll or SetRtSched
\* fails, apply ends with that error and the process id is not registered.
C11_RtBeforePid ==
    last.op = "apply"
    => (/\ (Called("WriteCgroupProc")
            => (/\ Called("SetRtSched")
                /\ ErrorOf("SetRtSched") = ""
                /\ Before("SetRtSched", "WriteCgroupProc")
                /\ \A w \in RtWrites : Before(w, "WriteCgroupProc")))
        /\ (ErrorOf("MkdirAll") # ""
            => (/\ last.ret = Err(ErrorOf("MkdirAll"))
                /\ ~Called("SetRtSched")
                /\ ~Called("WriteCgroupProc")
                /\ fs.procs = PreFs.procs))
        /\ (ErrorOf("SetRtSched") # ""
            => (/\ last.ret = Err(ErrorOf("SetRtSched"))
                /\ ~Called("WriteCgroupProc")
                /\ fs.procs = PreFs.procs)))

C11_Witness ==
    /\ last.op = "apply"
    /\ PreR.CpuRtPeriod # 0
    /\ PreR.CpuRtRuntime # 0
    /\ fs.rt_period = PreR.CpuRtPeriod
    /\ fs.rt_multi_runtime.runtime = PreR.CpuRtRuntime
    /\ ErrorOf("SetRtSched") = ""
    /\ Called("WriteCgroupProc")
    /\ fs.procs = Pid
    /\ last.ret = Nil

CfsPeriodWrites == Positions("write:cpu.cfs_period_us")
CfsQuotaWrites == Positions("write:cpu.cfs_quota_us")

\* C12: in set, when the first write of the CFS period fails with EINVAL and
\* a quota is requested, the error is not returned: the next write is that
\* of the quota and, once the quota is written, the period write is retried
\* exactly once, directly after it (a quota write that fails is returned and
\* nothing is retried).  When the first period write fails with EINVAL and
\* no quota is requested, or with another error, set returns that error and
\* the quota is not written.
C12_CfsPeriodDeferredOnce ==
    (/\ last.op = "set"
     /\ CfsPeriodWrites # {}
     /\ trace[FirstOf(CfsPeriodWrites)].err # "")
    => LET p == FirstOf(CfsPeriodWrites)
           e == trace[p].err
       IN  IF e = "EINVAL" /\ PreR.CpuQuota # 0
           THEN /\ Len(trace) > p
                /\ trace[p + 1].step = "write:cpu.cfs_quota_us"
                /\ Cardinality(CfsQuotaWrites) = 1
                /\ IF trace[p + 1].err = ""
                   THEN /\ fs.cfs_quota = PreR.CpuQuota
                        /\ Len(trace) > p + 1
                        /\ trace[p + 2].step = "write:cpu.cfs_period_us"
                        /\ Cardinality(CfsPeriodWrites) = 2
                        /\ IF trace[p + 2].err = ""
                           THEN fs.cfs_period = PreR.CpuPeriod
                           ELSE last.ret = Err(trace[p + 2].err)
                   ELSE /\ last.ret = Err(trace[p + 1].err)
                        /\ Cardinality(CfsPeriodWrites) = 1
           ELSE /\ last.ret = Err(e)
                /\ Len(trace) = p
                /\ CfsQuotaWrites = {}
                /\ fs.cfs_quota = PreFs.cfs_quota

C12_Witness ==
    /\ last.op = "set"
    /\ PreR.CpuPeriod = CpuPeriod
    /\ PreR.CpuQuota = CpuQuota
    /\ Cardinality(CfsPeriodWrites) = 2
    /\ trace[FirstOf(CfsPeriodWrites)].err = "EINVAL"
    /\ Before("write:cpu.cfs_quota_us", "write:cpu.rt_period_us")
    /\ fs.cfs_quota = CpuQuota
    /\ fs.cfs_period = CpuPeriod
    /\ last.ret = Nil

\* the ancestors from the top of the hierarchy down to the container's pod:
\* /sys/fs/cgroup/cpu,cpuacct/kubepods.slice, its kubepods-besteffort.slice,
\* the parent directory of the container's cgroup
PathDown == <<"kubepods", "besteffort", "pod">>

\* a ledger the reader cannot parse: it has fewer than the two tokens the
\* reader drops, or a token that is no 32-bit integer among those it keeps
Malformed(text) ==
    /\ text # NoFile
    /\ \/ Len(text) < 2
       \/ \E i \in 1..Len(text) - 2 : ~ParsesInt32(text[i])

\* C14: when the ledger of an ancestor is malformed, an apply that requests
\* a real-time runtime writes neither that ledger, nor the ledger of a cgroup
\* below it on the path, nor the container's own runtime record (nor does it
\* register the process), and the call that reads the malformed ledger is
\* aborted there.
C14_MalformedLedgerAborts ==
    (last.op = "apply" /\ PreR.CpuRtRuntime # 0)
    => \A i \in 1..Len(PathDown) :
          Malformed(PreFs[PathDown[i]])
          => (/\ \A j \in i..Len(PathDown) :
                    /\ fs[PathDown[j]] = PreFs[PathDown[j]]
                    /\ ~Called("write:" \o PathDown[j])
              /\ fs.rt_multi_runtime = PreFs.rt_multi_runtime
              /\ ~Called("write:cpu.rt_multi_runtime_us")
              /\ ~Called("WriteCgroupProc")
              /\ (Called("read:" \o PathDown[i])
                  => (/\ exited
                      /\ last.ret = Err("panic")
                      /\ trace[Len(trace) - 1].step = "panic:" \o PathDown[i])))

C14_Witness ==
    /\ last.op = "apply"
    /\ ~Malformed(PreFs.kubepods)
    /\ Malformed(PreFs.besteffort)
    /\ ErrorOf("write:kubepods") = ""
    /\ fs.kubepods # PreFs.kubepods
    /\ Called("read:besteffort")
    /\ fs.besteffort = PreFs.besteffort
    /\ fs.pod = PreFs.pod
    /\ fs.rt_multi_runtime = NoRecord
    /\ exited

\* C17: whenever the real-time configuration returns nil for a nonzero
\* requested period, the period has been written (a first write rejected
\* with EINVAL is retried after the runtime).
C17_RtPeriodWrittenOnSuccess ==
    (/\ last.op \in {"apply", "set"}
     /\ PreR.CpuRtPeriod # 0
     /\ Called("write:cpu.rt_period_us")
     /\ ~exited
     /\ last.ret = Nil)
    => fs.rt_period = PreR.CpuRtPeriod

\* the ledgers named by seq are written in the order of seq, each once, and
\* the container's own record after them
WrittenInOrder(seq) ==
    /\ \A k \in 1..Len(seq) : Cardinality(Positions("write:" \o seq[k])) = 1
    /\ \A k \in 1..Len(seq) - 1 :
          Before("write:" \o seq[k], "write:" \o seq[k + 1])
    /\ Before("write:" \o seq[Len(seq)], "write:cpu.rt_multi_runtime_us")

\* the last call requested a real-time runtime and got as far as the
\* container's own record
WroteOwnRecord ==
    /\ last.op \in {"apply", "set"}
    /\ PreR.CpuRtRuntime # 0
    /\ Called("write:cpu.rt_multi_runtime_us")

\* C18 as stated: the ancestors are written pod first, then the QoS class,
\* then the cluster's pods, each once, and the own record after them.
C18_OutwardOrder ==
    WroteOwnRecord => WrittenInOrder(<<"pod", "besteffort", "kubepods">>)

\* C18: the ancestors are written from the top of the hierarchy down: the
\* cluster's pods first, then the QoS class, then the pod, each once, and
\* the own record after them; a call that ends earlier wrote a prefix of
\* that order.
C18_InwardOrder ==
    /\ WroteOwnRecord => WrittenInOrder(<<"kubepods", "besteffort", "pod">>)
    /\ last.op \in {"apply", "set"}
       => (/\ \A lv \in {"kubepods", "besteffort", "pod"} :
                 Cardinality(Positions("write:" \o lv)) <= 1
           /\ (Called("write:pod") => Called("write:besteffort"))
           /\ (Called("write:besteffort") => Called("write:kubepods"))
           /\ Before("write:kubepods", "write:besteffort")
           /\ Before("write:besteffort", "write:pod"))

C18_Witness ==
    /\ WroteOwnRecord
    /\ ErrorOf("write:kubepods") = ""
    /\ ErrorOf("write:besteffort") = ""
    /\ ErrorOf("write:pod") = ""
    /\ ErrorOf("write:cpu.rt_multi_runtime_us") = ""
    /\ Before("write:kubepods", "write:pod")
    /\ fs.rt_multi_runtime.runtime = PreR.CpuRtRuntime

\* the per-core sequence the last call wrote to an ancestor's ledger
WrittenRuntimes(lv) ==
    addRuntime(readCpuRtMultiRuntimeFile(PreFs[lv]).runtimes, PreR)

\* C20: the text a contribution wrote to an ancestor's ledger, parsed by the
\* reader of the next contribution, is the per-core sequence that was
\* written: as many cores, the same value at each.
C20_LedgerRoundTrip ==
    \A lv \in {"kubepods", "besteffort", "pod"} :
       (/\ last.op \in {"apply", "set"}
        /\ Called("write:" \o lv)
        /\ ErrorOf("write:" \o lv) = "")
       => LET rd == readCpuRtMultiRuntimeFile(fs[lv]) IN
          /\ ~rd.panic
          /\ rd.err = ""
          /\ rd.runtimes = WrittenRuntimes(lv)

----------------------------------------------------------------------------
(* The order of the global destroy protocol *)

\* the steps named by seq that the last operation made were made in the order
\* of seq, each once
StepsInOrder(seq) ==
    /\ \A k \in 1..Len(seq) : Cardinality(Positions(seq[k])) <= 1
    /\ \A k \in 1..Len(seq), l \in 1..Len(seq) : k < l => Before(seq[k], seq[l])

\* the steps every returning run of the protocol makes
MadeEveryStep ==
    /\ \A st \in {"cgroupManager.Destroy", "RemoveAll", "clearInitProcess",
                  "runPoststopHooks", "setStopped"} : Called(st)
    /\ (config.intelRdtManager # "nil" => Called("intelRdtManager.Destroy"))

\* C16 as stated: cgroup destroy, Intel RDT destroy, removal of the root,
\* poststop hooks with their state snapshot, and only then the init-process
\* handle is cleared and the state set to Stopped.
C16_HooksBeforeClear ==
    ProtocolReturned
    => (/\ MadeEveryStep
        /\ StepsInOrder(<<"cgroupManager.Destroy", "intelRdtManager.Destroy",
                          "RemoveAll", "runPoststopHooks", "currentOCIState",
                          "RunHooks", "clearInitProcess", "setStopped">>))

\* C16: cgroup destroy, Intel RDT destroy, removal of the root, then the
\* init-process handle is cleared, then the poststop hooks run (their state
\* snapshot is taken after the handle is cleared), then the state is set to
\* Stopped.
C16_ClearBeforeHooks ==
    ProtocolReturned
    => (/\ MadeEveryStep
        /\ StepsInOrder(<<"cgroupManager.Destroy", "intelRdtManager.Destroy",
                          "RemoveAll", "clearInitProcess", "runPoststopHooks",
                          "currentOCIState", "RunHooks", "setStopped">>))

C16_Witness ==
    /\ ProtocolReturned
    /\ PreC.initProcess = "init"
    /\ Called("intelRdtManager.Destroy")
    /\ Called("RunHooks")
    /\ Before("RemoveAll", "clearInitProcess")
    /\ Before("clearInitProcess", "currentOCIState")
    /\ Before("RunHooks", "setStopped")
    /\ c.initProcess = "nil"
    /\ c.state = stoppedState

----------------------------------------------------------------------------
(* The ledgers of the ancestors *)

\* the entries of a ledger, as the reader of the next contribution gives them
Entries(text) == readCpuRtMultiRuntimeFile(text).runtimes

Readable(text) ==
    LET rd == readCpuRtMultiRuntimeFile(text) IN ~rd.panic /\ rd.err = ""

\* what container k asks for on a core
Asked(k, core) ==
    procs[k].r.CpuRtRuntime * Occurrences(procs[k].r.CpusetCpus, core)

Disjoint(k, l) ==
    \A core \in 0..NumCores - 1 : Asked(k, core) = 0 \/ Asked(l, core) = 0

\* the ledger after the contributions of ra and then of rb
contributeBoth(text, ra, rb) ==
    writeToParentMultiRuntime(
        writeToParentMultiRuntime(text, ra, TRUE, TRUE).text, rb, TRUE, TRUE).text

\* C13: two containers with disjoint cores are applied one after the other
\* to the same ancestors: in either order each ledger ends with every core's
\* entry raised by what the container on that core asked for, the other
\* entries unchanged, and both orders give the same ledger.
C13_AdditiveOrderIndependent ==
    \A a \in Containers, b \in Containers :
       (/\ a # b
        /\ ~exited
        /\ last.op = "apply"
        /\ \A k \in Containers :
              /\ procs[k].calls = (IF k \in {a, b} THEN 1 ELSE 0)
              /\ (k \in {a, b} => Live(k))
        /\ Disjoint(a, b))
       => (/\ \A lv \in Ancestors :
                 /\ Readable(fs[lv])
                 /\ Entries(fs[lv]) =
                       [i \in 1..NumCores |->
                           Entries(ZeroLedger)[i] + Asked(a, i - 1) + Asked(b, i - 1)]
           /\ contributeBoth(ZeroLedger, procs[a].r, procs[b].r)
                 = contributeBoth(ZeroLedger, procs[b].r, procs[a].r))

RECURSIVE liveSum(_, _)
liveSum(k, core) ==
    IF k = 0
    THEN 0
    ELSE liveSum(k - 1, core) + (IF Live(k) THEN Asked(k, core) ELSE 0)

\* C15: after any sequence of apply, set and destroy, the entry of every
\* ancestor's ledger at a core is the sum of what the live containers on
\* that core ask for.
C15_LedgerIsSumOfLive ==
    ~exited
    => \A lv \in Ancestors :
          /\ Readable(fs[lv])
          /\ Entries(fs[lv]) =
                [i \in 1..NumCores |-> liveSum(NumContainers, i - 1)]

\* both contributing calls have gone through every ancestor
BothDone == \A k \in Racers : procs[k].lv > Len(Levels)

\* the ledger holds what racer k alone added to the text it read
OnlyOf(k, lv) ==
    fs[Levels[lv]] = writeBack(Entries(procs[k].saw[lv]), procs[k].r)

\* C19: nothing orders the read and the write of one contribution against
\* those of another: when both calls have read the same text of a ledger,
\* neither having written it yet, the ledger ends as the later writer left
\* it, with what that call alone added to the text read, and the other
\* call's contribution is lost.
C19_LostUpdate ==
    \A lv \in 1..Len(Levels) :
       (/\ BothDone
        /\ ~exited
        /\ procs[1].saw[lv] = procs[2].saw[lv])
       => \E k \in Racers : OnlyOf(k, lv)

C19_Witness ==
    /\ BothDone
    /\ ~exited
    /\ procs[1].saw[1] = ZeroLedger
    /\ procs[2].saw[1] = ZeroLedger
    /\ procs[1].r.CpusetCpus = <<Num(0)>>
    /\ procs[2].r.CpusetCpus = <<Num(1)>>
    /\ OnlyOf(2, 1)
    /\ fs.kubepods # contributeBoth(ZeroLedger, procs[1].r, procs[2].r)
    /\ fs.kubepods # contributeBoth(ZeroLedger, procs[2].r, procs[1].r)
====
